---- MODULE Spec2Model ----
(***************************************************************************)
(* lazy-git-checkout: the Git handle (src/src/core.rs, struct Git), its    *)
(* background GitWorker task, the command queue and the checkout progress  *)
(* channel between them, and the git working directory the worker drives.  *)
(*                                                                         *)
(* Text is modelled as a sequence of tokens: a token is one character or   *)
(* one fixed literal that no other text of the model overlaps, so that     *)
(* str::contains and str::split work on sequences as they do on strings.   *)
(***************************************************************************)
EXTENDS Integers, Sequences, FiniteSets, TLC

\* ------------------------------------------------------------------ bounds

\* Sessions a handle opens in one run (each opens one progress channel).
MaxCheckouts == 2

\* Entries the stash list may hold.
MaxStash == 2

\* ------------------------------------------------------- program constants

\* tokio::sync::mpsc::channel(1): the command queue (core.rs:128).
CmdCap == 1

\* tokio::sync::mpsc::channel(10): the progress channel (core.rs:157).
ProgressCap == 10

\* ------------------------------------------------------------------- text

\* Branch names of the working directory: "a" and "a2".
BranchA == <<"a">>

BranchA2 == <<"a", "2">>

Branches == {BranchA, BranchA2}

\* s.contains(t) on token sequences.
Contains(s, t) ==
    \E i \in 0..(Len(s) - Len(t)) : SubSeq(s, i + 1, i + Len(t)) = t

\* s.split(sep)[0]: the text before the first sep (the whole text without one).
RECURSIVE FirstField(_, _)
FirstField(s, sep) ==
    IF s = <<>> \/ Head(s) = sep THEN <<>>
    ELSE <<Head(s)>> \o FirstField(Tail(s), sep)

\* format!("lazy-git-checkout:{}", branch)
StashName(branch) == <<"lazy-git-checkout", ":">> \o branch

\* ---------------------------------------------------- the git working copy

\* The digits git prints in a stash reference.
Digits == <<"0", "1", "2", "3", "4">>

\* "stash@{i}", i counted from 0 at the newest entry.
StashRef(i) == <<"stash@{", Digits[i + 1], "}">>

\* One line of `git stash list`: "stash@{i}: On <branch>: <message>".
StashLine(i, e) == StashRef(i) \o <<":", " On ">> \o e.on \o <<":", " ">> \o e.msg

\* The stdout of `git stash list`, split at '\n': one line per entry, newest
\* first, and the empty text after the last newline.
StashListLines(st) == [i \in 1..Len(st) |-> StashLine(i - 1, st[i])] \o <<(<<>>)>>

\* The position (from 1) of the entry a stash reference names, 0 for none.
ResolveRef(st, ref) ==
    IF \E i \in 1..Len(st) : StashRef(i - 1) = ref
    THEN CHOOSE i \in 1..Len(st) : StashRef(i - 1) = ref
    ELSE 0

RemoveAt(s, i) == SubSeq(s, 1, i - 1) \o SubSeq(s, i + 1, Len(s))

\* What a git invocation can end in: exit 0 with UTF-8 output, exit 0 with
\* output that is not UTF-8, a non-zero exit.
Outcomes == {"ok", "not_utf8", "nonzero"}

\* run_git_command: Err on a non-zero exit, Ok(output) otherwise.
RunOk(o) == o # "nonzero"

\* ---------------------------------------------------------------- messages

None == 0

\* CheckoutStatus; data is the text carried (stdout, or the error's text).
Progress(data) == [kind |-> "Progress", data |-> data]

Done == [kind |-> "Done", data |-> <<>>]

Failed(e) == [kind |-> "Failed", data |-> e]

\* Option::None of poll_checkout_status.
NoStatus == [kind |-> "None", data |-> <<>>]

\* A Result's payload: Ok(text) or Err(anyhow!(text)).
Value(text) == [kind |-> "Value", data |-> text]

\* The stdout (exit 0) or stderr (non-zero exit) of one git step, kept apart
\* by the step's name.
StepText(step) == <<step>>

IsTerminal(m) == m.kind \in {"Done", "Failed"}

\* GitCommand
CheckoutCmd(tx, branch) == [kind |-> "Checkout", tx |-> tx, branch |-> branch]

QueryCmd(kind) == [kind |-> kind, tx |-> None, branch |-> <<>>]

QueryKinds == {"AllProjectBranches", "GetCurrentBranch"}

NoCmd == [kind |-> "-", tx |-> None, branch |-> <<>>]

Ret(op, status, val) == [op |-> op, status |-> status, val |-> val]

\* Err(anyhow!("checkout already in progress")) of Git::checkout.
AlreadyInProgress == Ret("checkout", "Err", Value(<<"checkout already in progress">>))

\* The status line GitWorker::run sends before GitWorker::checkout begins.
Stashing == Progress(<<"Stashing current changes...">>)

\* String::from_utf8(stdout).trim(): leading and trailing whitespace removed.
RECURSIVE TrimStart(_)
TrimStart(s) ==
    IF s # <<>> /\ Head(s) \in {" ", "\n"} THEN TrimStart(Tail(s)) ELSE s

RECURSIVE TrimEnd(_)
TrimEnd(s) ==
    IF s # <<>> /\ s[Len(s)] \in {" ", "\n"}
    THEN TrimEnd(SubSeq(s, 1, Len(s) - 1)) ELSE s

Trim(s) == TrimEnd(TrimStart(s))

\* ------------------------------------------------------------------- state

VARIABLES
    checkout_rx,   \* Git.checkout_rx: None or the progress channel's id
    checkout_tx,   \* Git.checkout_tx
    cmdq,          \* the command queue (Git.tx -> GitWorker.rx)
    chan,          \* progress channels: id -> [buf, open]; open = receiver alive
    nextChan,      \* the id the next mpsc::channel(10) gets
    cpc,           \* where the caller is: idle or suspended in an await
    pending,       \* the command the suspended caller is sending or awaiting
    ret,           \* what the caller's last finished call returned
    reply,         \* the oneshot channel of the pending query
    wpc,           \* where the worker task is
    wcmd,          \* the command the worker is executing
    cur_branch,    \* GitWorker::checkout's cur_branch
    last_stashed,  \* GitWorker::checkout's last_stashed
    head,          \* the working directory's current branch
    stashes,       \* the working directory's stash list, newest first
    gitlog,        \* history: git invocations of the worker's latest Checkout
    emitted,       \* history: messages the worker sent for its latest Checkout
    seqchan,       \* history: the channel of the worker's latest Checkout
    polled,        \* history: what the polls of the latest session returned
    pchan,         \* history: the channel of the caller's latest session
    sessions,      \* history: sessions opened and not yet ended by a terminal poll
    db_file,       \* the store file at DB_PATH: its lines, or why it cannot be read
    store_ret,     \* what the last call of a store function returned
    items,         \* StatefulList.items of ChangeBranchesWidget.saved_branches
    selected,      \* StatefulList.state.selected(): <<>> for None, <<i>> for Some(i)
    wops,          \* history: the widget's last two operations
    wbefore,       \* history: the widget's list and selection before each of them
    ppc,           \* per tool invocation: "idle", or "loaded" between load and save
    loaded         \* per tool invocation: its call and the registry it holds

callerVars == <<cpc, pending, ret>>

handleVars == <<checkout_rx, checkout_tx>>

workerVars == <<wpc, wcmd, cur_branch, last_stashed>>

gitVars == <<head, stashes>>

workerHist == <<gitlog, emitted, seqchan>>

callerHist == <<polled, pchan, sessions>>

widgetVars == <<items, selected, wops, wbefore>>

procVars == <<ppc, loaded>>

storeVars == <<db_file, store_ret, widgetVars, procVars>>

gitAll == <<checkout_rx, checkout_tx, cmdq, chan, nextChan, cpc, pending, ret,
            reply, wpc, wcmd, cur_branch, last_stashed, head, stashes, gitlog,
            emitted, seqchan, polled, pchan, sessions>>

vars == <<checkout_rx, checkout_tx, cmdq, chan, nextChan, cpc, pending, ret,
          reply, wpc, wcmd, cur_branch, last_stashed, head, stashes, gitlog,
          emitted, seqchan, polled, pchan, sessions, db_file, store_ret, items,
          selected, wops, wbefore, ppc, loaded>>

ChanIds == 1..MaxCheckouts

ClosedChan == [buf |-> <<>>, open |-> FALSE]

NoReply == [kind |-> "-", status |-> "-", val |-> <<>>]

DroppedReply == [kind |-> "dropped", status |-> "-", val |-> <<>>]

NoRet == Ret("-", "-", NoStatus)

\* A stash this tool left behind on an earlier run, leaving branch b.
ToolStash(b) == [on |-> b, msg |-> StashName(b)]

\* Stash lists the working directory may hold when the handle is created.
InitStashes == {<<>>, <<ToolStash(BranchA)>>}

\* The store file as the process finds it: absent (ErrorKind::NotFound), present
\* but failing to read with another error, or readable text as its lines.
NotFound == [kind |-> "not_found", lines |-> <<>>]

Unreadable == [kind |-> "unreadable", lines |-> <<>>]

FileText(lines) == [kind |-> "text", lines |-> lines]

\* What a store function returned for its path argument: Ok with a registry or
\* a branch list, Err with its message, or the panic that ended the process.
StoreRet(op, arg, status, err, projects, branches) ==
    [op |-> op, arg |-> arg, status |-> status, err |-> err,
     projects |-> projects, branches |-> branches]

NoStoreRet == StoreRet("none", <<>>, "none", <<>>, <<>>, <<>>)

\* StatefulList::with_items: the given items, ListState::default() selects none.
with_items(its) == [items |-> its, selected |-> <<>>]

\* The tool invocations that may run at the same time on one store file.
Procs == {1, 2}

\* What an invocation holds between load_from_disk and write_to_disk: the
\* call it is making, the registry it loaded (base) and the one it will save
\* (db); saved tells that the call has returned after its save.
InvocationOf(op, path, branch, base, db, saved) ==
    [op |-> op, path |-> path, branch |-> branch, base |-> base, db |-> db,
     saved |-> saved]

NoInvocation == InvocationOf("none", <<>>, <<>>, <<>>, <<>>, FALSE)

\* No invocation is between its load and its save.
InvocationsIdle ==
    /\ ppc = [p \in Procs |-> "idle"]
    /\ loaded = [p \in Procs |-> NoInvocation]

\* No store function has been called and no widget built.
StoreUntouched ==
    /\ db_file = NotFound
    /\ store_ret = NoStoreRet
    /\ items = <<>>
    /\ selected = <<>>
    /\ wops = <<>>
    /\ wbefore = <<>>
    /\ InvocationsIdle

\* Git::new: no session, the worker spawned and waiting for its first command.
GitInit ==
    /\ checkout_rx = None
    /\ checkout_tx = None
    /\ cmdq = <<>>
    /\ chan = [c \in ChanIds |-> ClosedChan]
    /\ nextChan = 1
    /\ cpc = "idle"
    /\ pending = NoCmd
    /\ ret = NoRet
    /\ reply = NoReply
    /\ wpc = "recv"
    /\ wcmd = NoCmd
    /\ cur_branch = <<>>
    /\ last_stashed = <<>>
    /\ head \in Branches
    /\ stashes \in InitStashes
    /\ gitlog = <<>>
    /\ emitted = <<>>
    /\ seqchan = None
    /\ polled = <<>>
    /\ pchan = None
    /\ sessions = 0

Init == GitInit /\ StoreUntouched

\* The worker task has ended (it panicked): its receiver is dropped.
WorkerGone == wpc = "dead"

\* -------------------------------------------------------------- the caller
\* Git's methods take &mut self (checkout, poll_checkout_status) or are awaited
\* to their end by the one task that owns the handle: one call at a time.

\* Mutant of AfterSend: a query returns as soon as its command is queued,
\* without awaiting the reply.
AfterSend_NoAwait(cmd) ==
    /\ cpc' = "idle"
    /\ pending' = NoCmd
    /\ ret' = Ret(IF cmd.kind = "Checkout" THEN "checkout" ELSE cmd.kind, "Ok",
                  Value(<<>>))

\* What follows Sender::send(cmd).await returning Ok in each of Git's methods:
\* checkout returns Ok(()), a query goes on to await its oneshot receiver.
AfterSend(cmd) ==
    IF cmd.kind = "Checkout"
    THEN /\ cpc' = "idle"
         /\ pending' = NoCmd
         /\ ret' = Ret("checkout", "Ok", Value(<<>>))
    ELSE /\ cpc' = "reply"
         /\ pending' = cmd
         /\ ret' = ret

\* self.tx.send(cmd).await?: an error when the worker's receiver is gone, the
\* command enqueued when the queue has room, the caller suspended otherwise.
Sender_send(cmd) ==
    IF WorkerGone
    THEN /\ cmdq' = cmdq
         /\ cpc' = "idle"
         /\ pending' = NoCmd
         /\ ret' = Ret(IF cmd.kind = "Checkout" THEN "checkout" ELSE cmd.kind,
                       "Err", Value(<<"channel closed">>))
    ELSE IF Len(cmdq) < CmdCap
    THEN /\ cmdq' = Append(cmdq, cmd)
         /\ AfterSend(cmd)
    ELSE /\ cmdq' = cmdq
         /\ cpc' = "send"
         /\ pending' = cmd
         /\ ret' = ret

\* Mutant of Git_checkout: the check of checkout_rx is missing, so a second
\* call replaces the open session (dropping its receiver) and is enqueued.
Git_checkout_NoGate(branch) ==
    /\ cpc = "idle"
    /\ nextChan <= MaxCheckouts
    /\ checkout_rx' = nextChan
    /\ checkout_tx' = nextChan
    /\ chan' = [c \in ChanIds |->
                  IF c = nextChan THEN [buf |-> <<>>, open |-> TRUE]
                  ELSE IF c = checkout_rx THEN ClosedChan ELSE chan[c]]
    /\ nextChan' = nextChan + 1
    /\ polled' = <<>>
    /\ pchan' = nextChan
    /\ sessions' = sessions + 1
    /\ Sender_send(CheckoutCmd(nextChan, branch))
    /\ UNCHANGED <<reply, workerVars, gitVars, workerHist>>
    /\ UNCHANGED storeVars

\* Git::checkout(branch)
Git_checkout(branch) ==
    /\ cpc = "idle"
    /\ IF checkout_rx # None
       THEN /\ ret' = AlreadyInProgress
            /\ UNCHANGED <<handleVars, cmdq, chan, nextChan, cpc, pending,
                           callerHist>>
       ELSE /\ nextChan <= MaxCheckouts
            /\ checkout_rx' = nextChan
            /\ checkout_tx' = nextChan
            /\ chan' = [chan EXCEPT ![nextChan] = [buf |-> <<>>, open |-> TRUE]]
            /\ nextChan' = nextChan + 1
            /\ polled' = <<>>
            /\ pchan' = nextChan
            /\ sessions' = sessions + 1
            /\ Sender_send(CheckoutCmd(nextChan, branch))
    /\ UNCHANGED <<reply, workerVars, gitVars, workerHist>>
    /\ UNCHANGED storeVars

\* The suspended Sender::send(cmd).await resumes: the queue has room, or the
\* worker's receiver was dropped.
Sender_send_resume ==
    /\ cpc = "send"
    /\ WorkerGone \/ Len(cmdq) < CmdCap
    /\ Sender_send(pending)
    /\ UNCHANGED <<handleVars, chan, nextChan, reply, workerVars, gitVars,
                   workerHist, callerHist>>
    /\ UNCHANGED storeVars

\* Mutant of PollDeliver: the newest message of the channel is returned
\* instead of the oldest.
PollDeliver_Lifo ==
    LET c == checkout_rx
        status == chan[c].buf[Len(chan[c].buf)]
    IN  /\ ret' = Ret("poll", "Ok", status)
        /\ cpc' = "idle"
        /\ polled' = Append(polled, status)
        /\ IF IsTerminal(status)
           THEN /\ checkout_rx' = None
                /\ checkout_tx' = None
                /\ chan' = [chan EXCEPT ![c] = ClosedChan]
                /\ sessions' = sessions - 1
           ELSE /\ chan' = [chan EXCEPT ![c].buf = SubSeq(@, 1, Len(@) - 1)]
                /\ UNCHANGED <<handleVars, sessions>>
        /\ UNCHANGED <<cmdq, nextChan, pending, reply, workerVars, gitVars,
                       workerHist, pchan>>

\* Mutant of PollDeliver: the session is cleared on every message, Progress
\* included.
PollDeliver_ClearOnProgress ==
    LET c == checkout_rx
        status == Head(chan[c].buf)
    IN  /\ ret' = Ret("poll", "Ok", status)
        /\ cpc' = "idle"
        /\ polled' = Append(polled, status)
        /\ checkout_rx' = None
        /\ checkout_tx' = None
        /\ chan' = [chan EXCEPT ![c] = ClosedChan]
        /\ sessions' = IF IsTerminal(status) THEN sessions - 1 ELSE sessions
        /\ UNCHANGED <<cmdq, nextChan, pending, reply, workerVars, gitVars,
                       workerHist, pchan>>

\* poll_checkout_status once rx.recv().await has a message: Progress is passed
\* on, Done and Failed are passed on and drop the session's two channel ends.
PollDeliver ==
    LET c == checkout_rx
        status == Head(chan[c].buf)
    IN  /\ ret' = Ret("poll", "Ok", status)
        /\ cpc' = "idle"
        /\ polled' = Append(polled, status)
        /\ IF IsTerminal(status)
           THEN /\ checkout_rx' = None
                /\ checkout_tx' = None
                /\ chan' = [chan EXCEPT ![c] = ClosedChan]
                /\ sessions' = sessions - 1
           ELSE /\ chan' = [chan EXCEPT ![c].buf = Tail(@)]
                /\ UNCHANGED <<handleVars, sessions>>
        /\ UNCHANGED <<cmdq, nextChan, pending, reply, workerVars, gitVars,
                       workerHist, pchan>>

\* Git::poll_checkout_status(): None at once without a session; else the next
\* message, suspending in rx.recv().await while the channel is empty. (recv()
\* never yields None: the handle itself keeps a sender in checkout_tx.)
Git_poll_checkout_status ==
    /\ cpc = "idle"
    /\ IF checkout_rx = None
       THEN /\ ret' = Ret("poll", "Ok", NoStatus)
            /\ UNCHANGED <<handleVars, cmdq, chan, nextChan, cpc, pending, reply,
                           workerVars, gitVars, workerHist, callerHist>>
       ELSE IF chan[checkout_rx].buf # <<>>
       THEN PollDeliver
       ELSE /\ cpc' = "recv"
            /\ UNCHANGED <<handleVars, cmdq, chan, nextChan, pending, ret, reply,
                           workerVars, gitVars, workerHist, callerHist>>
    /\ UNCHANGED storeVars

\* The suspended rx.recv().await resumes with a message.
Receiver_recv_resume ==
    /\ cpc = "recv"
    /\ chan[checkout_rx].buf # <<>>
    /\ PollDeliver
    /\ UNCHANGED storeVars

\* Git::get_current_branch() and Git::all_project_branches(): a fresh oneshot
\* channel, the command sent, then the reply awaited.
Git_query(kind) ==
    /\ cpc = "idle"
    /\ reply' = NoReply
    /\ Sender_send(QueryCmd(kind))
    /\ UNCHANGED <<handleVars, chan, nextChan, workerVars, gitVars, workerHist,
                   callerHist>>
    /\ UNCHANGED storeVars

\* rx.await of a query: the reply of the matching kind is returned as it is,
\* anything else (the sender dropped, another kind) is "invalid response".
Git_query_reply ==
    /\ cpc = "reply"
    /\ reply # NoReply
    /\ ret' = IF reply.kind = pending.kind
              THEN Ret(pending.kind, reply.status, Value(reply.val))
              ELSE Ret(pending.kind, "Err", Value(<<"invalid response">>))
    /\ reply' = NoReply
    /\ cpc' = "idle"
    /\ pending' = NoCmd
    /\ UNCHANGED <<handleVars, cmdq, chan, nextChan, workerVars, gitVars,
                   workerHist, callerHist>>
    /\ UNCHANGED storeVars

\* -------------------------------------------------------------- the worker

\* A git invocation of the worker's current Checkout, for the history.
Invocation(cmd, arg, o) == [cmd |-> cmd, arg |-> arg, res |-> o]

\* An unwrap() on an Err panics the worker task: the task ends, GitWorker.rx is
\* dropped with the commands still queued, and with them their reply senders.
Panic ==
    /\ wpc' = "dead"
    /\ wcmd' = NoCmd
    /\ cur_branch' = <<>>
    /\ last_stashed' = <<>>
    /\ cmdq' = <<>>
    /\ reply' = IF cpc = "reply" /\ reply = NoReply THEN DroppedReply ELSE reply

\* Whether sending on progress channel c returns Err: the receiver was dropped,
\* or (try_send only) the buffer is full.
SendErr(c, blocking) ==
    \/ ~chan[c].open
    \/ ~blocking /\ Len(chan[c].buf) >= ProgressCap

\* Mutant of Send: every message is put on the channel twice.
Send_Twice(m, blocking, next) ==
    IF SendErr(wcmd.tx, blocking)
    THEN /\ Panic
         /\ UNCHANGED <<chan, emitted>>
    ELSE /\ Len(chan[wcmd.tx].buf) + 1 < ProgressCap
         /\ chan' = [chan EXCEPT ![wcmd.tx].buf = Append(Append(@, m), m)]
         /\ emitted' = Append(Append(emitted, m), m)
         /\ wpc' = next
         /\ IF next = "recv"
            THEN wcmd' = NoCmd /\ cur_branch' = <<>> /\ last_stashed' = <<>>
            ELSE UNCHANGED <<wcmd, cur_branch, last_stashed>>
         /\ UNCHANGED <<cmdq, reply>>

\* tx.try_send(m).unwrap() (blocking = FALSE) or tx.send(m).await.unwrap()
\* (blocking = TRUE, which waits for room) on the current command's channel,
\* after which the worker goes on at next; "recv" is the return to run()'s loop.
Send(m, blocking, next) ==
    IF SendErr(wcmd.tx, blocking)
    THEN /\ Panic
         /\ UNCHANGED <<chan, emitted>>
    ELSE /\ Len(chan[wcmd.tx].buf) < ProgressCap
         /\ chan' = [chan EXCEPT ![wcmd.tx].buf = Append(@, m)]
         /\ emitted' = Append(emitted, m)
         /\ wpc' = next
         /\ IF next = "recv"
            THEN wcmd' = NoCmd /\ cur_branch' = <<>> /\ last_stashed' = <<>>
            ELSE UNCHANGED <<wcmd, cur_branch, last_stashed>>
         /\ UNCHANGED <<cmdq, reply>>

\* GitWorker::send_output_or_err(tx, output), then the caller's next step:
\* Progress(stdout) by try_send for Ok(output) with UTF-8 stdout, Failed(e) by
\* send for an Err or a stdout that is not UTF-8. It returns to its caller
\* either way.
send_output_or_err(o, step, next) ==
    IF o = "ok"
    THEN Send(Progress(StepText(step)), FALSE, next)
    ELSE Send(Failed(StepText(step)), TRUE, next)

\* GitWorker::run, GitCommand::Checkout(tx, branch): the first Progress is
\* sent, then GitWorker::checkout begins.
GitWorker_run_checkout ==
    /\ wpc = "recv"
    /\ cmdq # <<>>
    /\ Head(cmdq).kind = "Checkout"
    /\ LET command == Head(cmdq)
           m == Stashing
       IN  /\ gitlog' = <<>>
           /\ seqchan' = command.tx
           /\ IF SendErr(command.tx, FALSE)
              THEN /\ Panic
                   /\ emitted' = <<>>
                   /\ UNCHANGED chan
              ELSE /\ chan' = [chan EXCEPT ![command.tx].buf = Append(@, m)]
                   /\ emitted' = <<m>>
                   /\ cmdq' = Tail(cmdq)
                   /\ wpc' = "current"
                   /\ wcmd' = command
                   /\ UNCHANGED <<cur_branch, last_stashed, reply>>
    /\ UNCHANGED <<handleVars, nextChan, callerVars, gitVars, callerHist>>
    /\ UNCHANGED storeVars

\* Mutant of get_current_branch: the stdout is passed on with its newline.
get_current_branch_NoTrim(o) ==
    IF o = "ok" THEN <<head \o <<"\n">>>> ELSE <<>>

\* GitWorker::get_current_branch: `git rev-parse --abbrev-ref HEAD`, trimmed;
\* <<>> stands for Err.
get_current_branch(o) ==
    IF o = "ok" THEN <<Trim(head \o <<"\n">>)>> ELSE <<>>

\* Mutant of GitWorker_checkout_current: the `return` after sending Failed is
\* missing, so the stash step follows with an empty branch name.
GitWorker_checkout_current_NoReturn ==
    /\ wpc = "current"
    /\ \E o \in Outcomes :
         /\ gitlog' = Append(gitlog, Invocation("rev-parse", <<>>, o))
         /\ IF get_current_branch(o) # <<>>
            THEN /\ cur_branch' = get_current_branch(o)[1]
                 /\ wpc' = "stash"
                 /\ UNCHANGED <<wcmd, last_stashed, cmdq, reply, chan, emitted>>
            ELSE Send(Failed(StepText("rev-parse")), TRUE, "stash")
    /\ UNCHANGED <<handleVars, nextChan, callerVars, gitVars, seqchan, callerHist>>
    /\ UNCHANGED storeVars

\* GitWorker::checkout, step 1: the current branch, or Failed and return.
GitWorker_checkout_current ==
    /\ wpc = "current"
    /\ \E o \in Outcomes :
         /\ gitlog' = Append(gitlog, Invocation("rev-parse", <<>>, o))
         /\ IF get_current_branch(o) # <<>>
            THEN /\ cur_branch' = get_current_branch(o)[1]
                 /\ wpc' = "stash"
                 /\ UNCHANGED <<wcmd, last_stashed, cmdq, reply, chan, emitted>>
            ELSE Send(Failed(StepText("rev-parse")), TRUE, "recv")
    /\ UNCHANGED <<handleVars, nextChan, callerVars, gitVars, seqchan, callerHist>>
    /\ UNCHANGED storeVars

\* GitWorker::checkout, step 2: `git stash -m lazy-git-checkout:<cur_branch>`.
\* With local changes (dirty) an exit 0 leaves a new entry on top of the list.
GitWorker_checkout_stash ==
    /\ wpc = "stash"
    /\ \E o \in Outcomes, dirty \in BOOLEAN :
         LET stash_name == StashName(cur_branch) IN
         /\ dirty => Len(stashes) < MaxStash
         /\ stashes' = IF RunOk(o) /\ dirty
                       THEN <<[on |-> head, msg |-> stash_name]>> \o stashes
                       ELSE stashes
         /\ gitlog' = Append(gitlog, Invocation("stash", stash_name, o))
         /\ send_output_or_err(o, "stash", "checkout")
    /\ UNCHANGED <<handleVars, nextChan, callerVars, head, seqchan, callerHist>>
    /\ UNCHANGED storeVars

\* GitWorker::checkout, step 3: `git checkout <branch>`.
GitWorker_checkout_checkout ==
    /\ wpc = "checkout"
    /\ \E o \in Outcomes :
         /\ head' = IF RunOk(o) THEN wcmd.branch ELSE head
         /\ gitlog' = Append(gitlog, Invocation("checkout", wcmd.branch, o))
         /\ send_output_or_err(o, "checkout", "stash_list")
    /\ UNCHANGED <<handleVars, nextChan, callerVars, stashes, seqchan, callerHist>>
    /\ UNCHANGED storeVars

\* Mutant of get_last_stashed: the last matching line is taken, not the first.
get_last_stashed_Oldest(lines, branch) ==
    LET stash_name == StashName(branch)
        matching == SelectSeq(lines, LAMBDA l : Contains(l, stash_name))
    IN  IF matching = <<>> THEN <<>>
        ELSE <<FirstField(matching[Len(matching)], ":")>>

\* GitWorker::get_last_stashed(branch) on the lines of `git stash list`: the
\* text before the first ':' of the first line containing the branch's stash
\* name; <<>> stands for None.
get_last_stashed(lines, branch) ==
    LET stash_name == StashName(branch)
        matching == SelectSeq(lines, LAMBDA l : Contains(l, stash_name))
    IN  IF matching = <<>> THEN <<>> ELSE <<FirstField(matching[1], ":")>>

\* Mutant of GitWorker_get_last_stashed: the stash looked for is the one named
\* in step 2 of this sequence, after the branch that was current.
GitWorker_get_last_stashed_OwnTag ==
    /\ wpc = "stash_list"
    /\ \E o \in Outcomes :
         /\ gitlog' = Append(gitlog, Invocation("stash-list", <<>>, o))
         /\ IF o # "ok"
            THEN Panic
            ELSE /\ last_stashed' = get_last_stashed(StashListLines(stashes), cur_branch)
                 /\ wpc' = IF last_stashed' # <<>> THEN "pop" ELSE "done"
                 /\ UNCHANGED <<wcmd, cur_branch, cmdq, reply>>
    /\ UNCHANGED <<handleVars, nextChan, callerVars, gitVars, chan, emitted,
                   seqchan, callerHist>>
    /\ UNCHANGED storeVars

\* GitWorker::checkout, step 4a: `git stash list`, whose Err (or a stdout that
\* is not UTF-8) is unwrapped.
GitWorker_get_last_stashed ==
    /\ wpc = "stash_list"
    /\ \E o \in Outcomes :
         /\ gitlog' = Append(gitlog, Invocation("stash-list", <<>>, o))
         /\ IF o # "ok"
            THEN Panic
            ELSE /\ last_stashed' = get_last_stashed(StashListLines(stashes), wcmd.branch)
                 /\ wpc' = IF last_stashed' # <<>> THEN "pop" ELSE "done"
                 /\ UNCHANGED <<wcmd, cur_branch, cmdq, reply>>
    /\ UNCHANGED <<handleVars, nextChan, callerVars, gitVars, chan, emitted,
                   seqchan, callerHist>>
    /\ UNCHANGED storeVars

\* GitWorker::checkout, step 4b: `git stash pop <last_stashed>`.
GitWorker_checkout_pop ==
    /\ wpc = "pop"
    /\ \E o \in Outcomes :
         LET i == ResolveRef(stashes, last_stashed[1]) IN
         /\ i = 0 => o = "nonzero"
         /\ stashes' = IF RunOk(o) THEN RemoveAt(stashes, i) ELSE stashes
         /\ gitlog' = Append(gitlog, Invocation("pop", last_stashed[1], o))
         /\ send_output_or_err(o, "pop", "done")
    /\ UNCHANGED <<handleVars, nextChan, callerVars, head, seqchan, callerHist>>
    /\ UNCHANGED storeVars

\* GitWorker::checkout, step 5: Done, and back to run()'s loop.
GitWorker_checkout_done ==
    /\ wpc = "done"
    /\ Send(Done, TRUE, "recv")
    /\ UNCHANGED <<handleVars, nextChan, callerVars, gitVars, gitlog, seqchan,
                   callerHist>>
    /\ UNCHANGED storeVars

\* The stdout of `git branch -a`: one line per branch, the current one starred.
BranchListing ==
    [i \in 1..2 |->
        LET b == <<BranchA, BranchA2>>[i] IN
        (IF b = head THEN <<"*", " ">> ELSE <<" ", " ">>) \o b]

\* b.trim_start_matches('*')
RECURSIVE TrimStartStar(_)
TrimStartStar(s) ==
    IF s # <<>> /\ Head(s) = "*" THEN TrimStartStar(Tail(s)) ELSE s

\* The branches all_project_branches replies with, joined by newlines.
RECURSIVE JoinLines(_)
JoinLines(ls) ==
    IF ls = <<>> THEN <<>>
    ELSE Trim(TrimStartStar(Trim(Head(ls)))) \o <<"\n">> \o JoinLines(Tail(ls))

\* GitWorker::run, GitCommand::AllProjectBranches(tx): GitWorker::
\* all_project_branches runs `git branch -a` and replies on the oneshot.
GitWorker_all_project_branches ==
    /\ wpc = "recv"
    /\ cmdq # <<>>
    /\ Head(cmdq).kind = "AllProjectBranches"
    /\ cmdq' = Tail(cmdq)
    /\ \E o \in Outcomes :
         reply' = IF o = "ok"
                  THEN [kind |-> "AllProjectBranches", status |-> "Ok",
                        val |-> JoinLines(BranchListing)]
                  ELSE [kind |-> "AllProjectBranches", status |-> "Err",
                        val |-> StepText("branch")]
    /\ UNCHANGED <<handleVars, chan, nextChan, callerVars, workerVars, gitVars,
                   workerHist, callerHist>>
    /\ UNCHANGED storeVars

\* Mutant of GitWorker_send_current_branch: the query is answered from a task
\* of its own, whatever the worker is doing.
GitWorker_send_current_branch_Spawned ==
    /\ wpc # "dead"
    /\ cmdq # <<>>
    /\ Head(cmdq).kind = "GetCurrentBranch"
    /\ cmdq' = Tail(cmdq)
    /\ \E o \in Outcomes :
         reply' = IF get_current_branch(o) # <<>>
                  THEN [kind |-> "GetCurrentBranch", status |-> "Ok",
                        val |-> get_current_branch(o)[1]]
                  ELSE [kind |-> "GetCurrentBranch", status |-> "Err",
                        val |-> StepText("rev-parse")]
    /\ UNCHANGED <<handleVars, chan, nextChan, callerVars, workerVars, gitVars,
                   workerHist, callerHist>>
    /\ UNCHANGED storeVars

\* GitWorker::run, GitCommand::GetCurrentBranch(tx): GitWorker::
\* send_current_branch replies with get_current_branch's result.
GitWorker_send_current_branch ==
    /\ wpc = "recv"
    /\ cmdq # <<>>
    /\ Head(cmdq).kind = "GetCurrentBranch"
    /\ cmdq' = Tail(cmdq)
    /\ \E o \in Outcomes :
         reply' = IF get_current_branch(o) # <<>>
                  THEN [kind |-> "GetCurrentBranch", status |-> "Ok",
                        val |-> get_current_branch(o)[1]]
                  ELSE [kind |-> "GetCurrentBranch", status |-> "Err",
                        val |-> StepText("rev-parse")]
    /\ UNCHANGED <<handleVars, chan, nextChan, callerVars, workerVars, gitVars,
                   workerHist, callerHist>>
    /\ UNCHANGED storeVars

\* ------------------------------------------------------- the specification

Caller ==
    \/ \E branch \in Branches : Git_checkout(branch)
    \/ Git_poll_checkout_status
    \/ Receiver_recv_resume
    \/ \E kind \in QueryKinds : Git_query(kind)
    \/ Sender_send_resume
    \/ Git_query_reply

Worker ==
    \/ GitWorker_run_checkout
    \/ GitWorker_checkout_current
    \/ GitWorker_checkout_stash
    \/ GitWorker_checkout_checkout
    \/ GitWorker_get_last_stashed
    \/ GitWorker_checkout_pop
    \/ GitWorker_checkout_done
    \/ GitWorker_all_project_branches
    \/ GitWorker_send_current_branch

Next == Caller \/ Worker

Spec == Init /\ [][Next]_vars

\* ------------------------------------------------------------------ claims

IsPrefix(s, t) == Len(s) <= Len(t) /\ SubSeq(t, 1, Len(s)) = s

Last(s) == s[Len(s)]

\* The invocations of subcommand cmd in the worker's latest Checkout.
Ran(cmd) == {i \in DOMAIN gitlog : gitlog[i].cmd = cmd}

\* C1: a checkout() made while an earlier session has not been ended by a poll
\* returning Done or Failed gets the 'checkout already in progress' error,
\* enqueues nothing and leaves the session, its channel and the caller as they
\* were; so a handle never has more than one session open.
C1_AtMostOneCheckout ==
    /\ [](sessions <= 1)
    /\ [][\A branch \in Branches :
            (sessions > 0 /\ Git_checkout(branch)) =>
                /\ ret' = AlreadyInProgress
                /\ cpc' = "idle"
                /\ UNCHANGED <<cmdq, pending, handleVars, chan, nextChan,
                               callerHist>>]_vars

\* A checkout() has just been rejected while a session was open.
C1_Witness ==
    /\ ret = AlreadyInProgress
    /\ sessions = 1
    /\ checkout_rx # None

\* C2: in a Checkout whose `git stash -m` succeeded and whose `git checkout`
\* exited non-zero, no `git stash pop` is invoked and Done is never sent; once
\* the sequence is over its last message is Failed.
C2_FailureContainment ==
    (/\ \E i \in Ran("stash") : gitlog[i].res = "ok"
     /\ \E i \in Ran("checkout") : gitlog[i].res = "nonzero")
    => /\ Ran("pop") = {}
       /\ \A i \in DOMAIN emitted : emitted[i] # Done
       /\ wpc = "recv" => Last(emitted).kind = "Failed"

\* Every git step so far of the worker's latest Checkout exited 0 with UTF-8
\* output.
AllStepsOk == \A i \in DOMAIN gitlog : gitlog[i].res = "ok"

\* Some line of the stash list carries the stash name of branch b.
MatchingStash(b) ==
    \E i \in 1..Len(stashes) : Contains(StashLine(i - 1, stashes[i]), StashName(b))

\* The progress stream of a Checkout without a pop and of one with a pop.
StreamNoPop ==
    <<Stashing, Progress(StepText("stash")), Progress(StepText("checkout")), Done>>

StreamPop ==
    <<Stashing, Progress(StepText("stash")), Progress(StepText("checkout")),
      Progress(StepText("pop")), Done>>

\* C3: while every git step of the Checkout the session belongs to has
\* succeeded, the polls have returned exactly the messages the worker sent, in
\* the order sent, the rest waiting in the channel; what the worker sent is the
\* stash output, the checkout output, the pop output (only when a stash with
\* the target's name was listed) and Done, in that order, after the opening
\* status line; and a poll that returned Done ended one of these two streams.
C3_SequenceOrdering ==
    (seqchan # None /\ seqchan = pchan /\ AllStepsOk) =>
        /\ IsPrefix(polled, emitted)
        /\ checkout_rx = seqchan => emitted = polled \o chan[seqchan].buf
        /\ IsPrefix(emitted, StreamNoPop) \/ IsPrefix(emitted, StreamPop)
        /\ Progress(StepText("pop")) \in {emitted[i] : i \in DOMAIN emitted}
              <=> Ran("pop") # {}
        /\ wpc = "pop" => MatchingStash(wcmd.branch)
        /\ wpc = "done" /\ Ran("pop") = {} => ~MatchingStash(wcmd.branch)
        /\ polled # <<>> /\ Last(polled) = Done =>
              /\ polled \in {StreamNoPop, StreamPop}
              /\ polled = StreamPop <=> Ran("pop") # {}

\* A poll has returned Done at the end of a Checkout that popped a stash.
C3_Witness ==
    /\ seqchan = pchan
    /\ AllStepsOk
    /\ polled = StreamPop
    /\ ret = Ret("poll", "Ok", Done)

\* C5: the worker task never ends.
C5_WorkerStaysAlive == wpc # "dead"

\* C6: of the messages the worker sends for one Checkout at most one is Done or
\* Failed, it is the last one, and the worker is back in run()'s loop once it
\* is sent (no further git step of that Checkout follows).
C6_TerminalIsLast ==
    \A i \in DOMAIN emitted :
        IsTerminal(emitted[i]) => i = Len(emitted) /\ wpc = "recv"

\* C7: in a Checkout whose `git stash -m` exited non-zero that invocation is
\* the last one (no checkout, stash list or pop follows) and Failed was sent.
C7_StashFailureEndsSequence ==
    \A i \in Ran("stash") :
        gitlog[i].res = "nonzero" =>
            /\ i = Len(gitlog)
            /\ Failed(StepText("stash")) \in {emitted[j] : j \in DOMAIN emitted}

\* C8: in a Checkout whose `git rev-parse --abbrev-ref HEAD` failed that
\* invocation is the only one, the messages sent are the opening status line
\* and Failed, and the worker is back in run()'s loop.
C8_CurrentBranchFailureAborts ==
    /\ gitlog # <<>> => gitlog[1].cmd = "rev-parse"
    /\ \A i \in Ran("rev-parse") :
          gitlog[i].res # "ok" =>
              /\ gitlog = <<Invocation("rev-parse", <<>>, gitlog[i].res)>>
              /\ emitted = <<Stashing, Failed(StepText("rev-parse"))>>
              /\ wpc = "recv"

\* The worker has sent Failed for a Checkout whose rev-parse exited non-zero.
C8_Witness ==
    /\ gitlog = <<Invocation("rev-parse", <<>>, "nonzero")>>
    /\ Len(emitted) = 2
    /\ emitted[2].kind = "Failed"

\* A step of poll_checkout_status: the call, or its suspended recv resuming.
PollStep == Git_poll_checkout_status \/ Receiver_recv_resume

\* C9: a poll without a session returns None at once and changes nothing; a
\* poll that returns Progress leaves the session open; a poll that returns
\* Done or Failed clears both channel ends of the session; and without a
\* session a checkout() passes the in-progress check and opens a session.
C9_PollContract ==
    [][/\ (checkout_rx = None /\ Git_poll_checkout_status) =>
              /\ ret' = Ret("poll", "Ok", NoStatus)
              /\ cpc' = "idle"
              /\ UNCHANGED <<handleVars, cmdq, chan, nextChan, pending, reply,
                             workerVars, gitVars, workerHist, callerHist>>
       /\ (checkout_rx # None /\ PollStep /\ cpc' = "idle") =>
              /\ ret'.op = "poll"
              /\ ret'.val.kind \in {"Progress", "Done", "Failed"}
              /\ (ret'.val.kind = "Progress") =>
                     /\ UNCHANGED <<handleVars, sessions>>
                     /\ chan'[checkout_rx].open
              /\ (ret'.val.kind \in {"Done", "Failed"}) =>
                     /\ checkout_rx' = None
                     /\ checkout_tx' = None
                     /\ sessions' = 0
       /\ \A branch \in Branches :
              (checkout_rx = None /\ Git_checkout(branch)) =>
                  /\ checkout_rx' # None
                  /\ sessions' = 1]_vars

\* A poll has returned None after a poll that returned Failed closed the
\* session.
C9_Witness ==
    /\ ret = Ret("poll", "Ok", NoStatus)
    /\ polled # <<>>
    /\ Last(polled).kind = "Failed"
    /\ checkout_rx = None

\* C10: the command queue never holds more than CmdCap = 1 command; whenever
\* the caller is idle without a session the queue is empty; and a checkout()
\* is never suspended in its send.
C10_EnqueueNeverBlocks ==
    /\ Len(cmdq) <= CmdCap
    /\ (cpc = "idle" /\ checkout_rx = None) => cmdq = <<>>
    /\ ~(cpc = "send" /\ pending.kind = "Checkout")

\* A checkout() has returned Ok with its command queued while the worker is
\* still executing the steps of the Checkout before it.
C10_Witness ==
    /\ ret = Ret("checkout", "Ok", Value(<<>>))
    /\ cpc = "idle"
    /\ Len(cmdq) = 1
    /\ Head(cmdq).kind = "Checkout"
    /\ wpc \notin {"recv", "dead"}

\* The scheduling the runtime gives: the worker task runs whenever it can take
\* a step (every git subprocess exits), a suspended await of the caller resumes
\* once it is ready, and the caller calls poll_checkout_status again and again.
FairSpec ==
    /\ Spec
    /\ WF_vars(Worker)
    /\ WF_vars(Receiver_recv_resume)
    /\ WF_vars(Sender_send_resume)
    /\ WF_vars(Git_query_reply)
    /\ SF_vars(Git_poll_checkout_status)

\* checkout() has just returned Ok: its session is open and its command queued.
CheckoutAccepted ==
    /\ ret = Ret("checkout", "Ok", Value(<<>>))
    /\ cpc = "idle"
    /\ checkout_rx # None

\* C4: under FairSpec every accepted checkout() is followed by a poll that
\* returns Done or Failed and so closes the session.
C4_EveryCheckoutTerminates == CheckoutAccepted ~> (checkout_rx = None)

\* A query call that came back without a reply from the worker: the send found
\* the command channel closed, or the oneshot sender was dropped unanswered.
Unanswered(r) ==
    /\ r.op \in QueryKinds
    /\ r.val \in {Value(<<"channel closed">>), Value(<<"invalid response">>)}

\* Every reply in flight answers the query the caller is waiting on, with the
\* kind of that query, and no query call returns without such a reply.
QueryAnswered ==
    /\ reply \notin {NoReply, DroppedReply} =>
          cpc = "reply" /\ reply.kind = pending.kind
    /\ ~Unanswered(ret)

\* A query call that has been issued returns, whatever the worker is doing.
QueryReturns == (pending.kind \in QueryKinds) ~> (pending = NoCmd)

\* C11: every get_current_branch() or all_project_branches() call is one
\* request answered by exactly one reply of the matching kind, and the call
\* always eventually returns, also while a Checkout is queued or executing and
\* the caller is not polling.
C11_QueryRoundTrip == []QueryAnswered /\ QueryReturns

\* The positions (from 1, newest first) of the stash entries whose line in
\* `git stash list` contains the tag, and the newest of a set of positions.
Tagged(st, tag) == {i \in 1..Len(st) : Contains(StashLine(i - 1, st[i]), tag)}

Newest(S) == CHOOSE i \in S : \A j \in S : i <= j

\* The tag step 2 of the running sequence gave to `git stash -m`.
TagOfStep2 == gitlog[CHOOSE i \in Ran("stash") : TRUE].arg

\* The entries tagged for the branch the running Checkout switches to.
TargetTagged == Tagged(stashes, StashName(wcmd.branch))

\* C12 as stated: the stash popped in step 4 is the newest entry whose message
\* contains the tag created in step 2 of the same sequence (the branch that was
\* current before the switch); with no such entry no pop is issued.
C12_PopsStashOfStep2 ==
    wpc = "pop" =>
        LET M == {i \in 1..Len(stashes) : Contains(stashes[i].msg, TagOfStep2)}
        IN  /\ M # {}
            /\ last_stashed = <<StashRef(Newest(M) - 1)>>

\* C12, amended: the stash popped in step 4 is the newest entry whose line
\* contains lazy-git-checkout:<target branch>, the tag of the branch switched
\* to; when no line contains that tag no pop is issued.
C12_PopsNewestStashOfTarget ==
    /\ [](wpc = "pop" =>
            /\ TargetTagged # {}
            /\ last_stashed = <<StashRef(Newest(TargetTagged) - 1)>>)
    /\ [](wpc = "done" /\ Ran("stash-list") # {} /\ Ran("pop") = {} =>
            TargetTagged = {})
    /\ [][wpc = "pop" /\ stashes' # stashes =>
            stashes' = RemoveAt(stashes, Newest(TargetTagged))]_vars

\* A switch from a2 to a has popped the stash named after a, not after a2.
C12_Witness ==
    /\ wpc = "done"
    /\ wcmd.branch = BranchA
    /\ TagOfStep2 = StashName(BranchA2)
    /\ \E i \in Ran("pop") : gitlog[i] = Invocation("pop", StashRef(0), "ok")
    /\ stashes = <<>>

\* C13: the stash of step 2 is issued as `git stash -m <msg>` with <msg> exactly
\* lazy-git-checkout: followed by the trimmed name of the branch step 1
\* reported (the branch checked out before the switch), whatever the target.
C13_StashMessage ==
    /\ wpc = "stash" => cur_branch = head
    /\ \A i \in Ran("stash") :
          /\ wcmd # NoCmd => gitlog[i].arg = <<"lazy-git-checkout", ":">> \o cur_branch
          /\ Ran("checkout") = {} => gitlog[i].arg = <<"lazy-git-checkout", ":">> \o head
    /\ \A i \in 1..Len(stashes) :
          stashes[i].msg = <<"lazy-git-checkout", ":">> \o stashes[i].on

\* On a2 and switching to a, step 2 has stashed under lazy-git-checkout:a2.
C13_Witness ==
    /\ wpc = "checkout"
    /\ wcmd.branch = BranchA
    /\ gitlog[Len(gitlog)] =
          Invocation("stash", <<"lazy-git-checkout", ":", "a", "2">>, "ok")
    /\ stashes # <<>>
    /\ stashes[1] = [on |-> BranchA2, msg |-> <<"lazy-git-checkout", ":", "a", "2">>]

\* ------------------------------------------- get_last_stashed on any list

\* The entries `git stash list` can show: the tool's own, made on either
\* branch, and the user's own stashes.
StashEntries == [on : Branches, msg : {StashName(b) : b \in Branches} \cup {<<"WIP">>}]

StashLists == UNION {[1..n -> StashEntries] : n \in 0..MaxStash}

\* The worker about to call get_last_stashed(branch): steps 1 to 3 of a
\* Checkout of any branch have succeeded, over any stash list.
StashListInit ==
    /\ checkout_rx = 1
    /\ checkout_tx = 1
    /\ cmdq = <<>>
    /\ emitted = <<Stashing, Progress(StepText("stash")),
                   Progress(StepText("checkout"))>>
    /\ chan = [c \in ChanIds |->
                 IF c = 1 THEN [open |-> TRUE, buf |-> emitted] ELSE ClosedChan]
    /\ nextChan = 2
    /\ cpc = "idle"
    /\ pending = NoCmd
    /\ ret = Ret("checkout", "Ok", Value(<<>>))
    /\ reply = NoReply
    /\ wpc = "stash_list"
    /\ \E b \in Branches : wcmd = CheckoutCmd(1, b)
    /\ cur_branch \in Branches
    /\ last_stashed = <<>>
    /\ head = wcmd.branch
    /\ stashes \in StashLists
    /\ gitlog = <<Invocation("rev-parse", <<>>, "ok"),
                  Invocation("stash", StashName(cur_branch), "ok"),
                  Invocation("checkout", wcmd.branch, "ok")>>
    /\ seqchan = 1
    /\ polled = <<>>
    /\ pchan = 1
    /\ sessions = 1
    /\ StoreUntouched

StashListSpec == StashListInit /\ [][GitWorker_get_last_stashed]_vars

\* C14: get_last_stashed(b) returns the stash reference (the text before the
\* first ':') of the first entry, in list order (newest first), whose line
\* contains lazy-git-checkout:b, and None when no entry contains that tag; of
\* several matching entries it is always the newest.
C14_LastStashed ==
    wpc \in {"pop", "done"} =>
        LET M == {i \in 1..Len(stashes) :
                    Contains(StashLine(i - 1, stashes[i]),
                             <<"lazy-git-checkout", ":">> \o wcmd.branch)}
        IN  /\ M = {} => last_stashed = <<>> /\ wpc = "done"
            /\ M # {} =>
                  /\ last_stashed = <<<<"stash@{", Digits[Newest(M)], "}">>>>
                  /\ \A j \in M : Newest(M) <= j
                  /\ wpc = "pop"

\* The newest entry is a stash of the user's own and the one below it carries
\* the tag: the reference returned is stash@{1}, that of the first match.
C14_Witness ==
    /\ wpc = "pop"
    /\ Len(stashes) >= 2
    /\ stashes[1].msg = <<"WIP">>
    /\ last_stashed = <<StashRef(1)>>

\* ------------------------------------------------------------- the store

\* Lines the store file may hold (headers and branch names together).
MaxLines == 4

PROJECT_PATH_DELIMITER == <<";;;;">>

\* Project::new
Project_new(path) == [path |-> path, branches |-> <<>>]

\* Project::add_branch and Project::remove_branch
Project_add_branch(project, branch) ==
    [project EXCEPT !.branches = Append(@, branch)]

Project_remove_branch(project, branch) ==
    [project EXCEPT !.branches = SelectSeq(@, LAMBDA b : b # branch)]

\* DB::add_project and DB::remove_project
DB_add_project(db, project) == Append(db, project)

DB_remove_project(db, path) == SelectSeq(db, LAMBDA p : p.path # path)

\* DB::get_project_mut, and the find() of get_branches and set_branches: the
\* position of the first project with this path, 0 for None.
get_project_mut(db, path) ==
    IF \E i \in 1..Len(db) : db[i].path = path
    THEN CHOOSE i \in 1..Len(db) :
            db[i].path = path /\ \A j \in 1..(i - 1) : db[j].path # path
    ELSE 0

\* DB::write_to_disk: per project its header line and a line per branch.
\* File::create and write_all are taken to succeed.
RECURSIVE write_to_disk(_)
write_to_disk(db) ==
    IF db = <<>> THEN <<>>
    ELSE <<PROJECT_PATH_DELIMITER \o Head(db).path>> \o Head(db).branches
            \o write_to_disk(Tail(db))

\* str::trim_start_matches: every leading repetition of the pattern goes.
RECURSIVE trim_start_matches(_, _)
trim_start_matches(s, pat) ==
    IF IsPrefix(pat, s)
    THEN trim_start_matches(SubSeq(s, Len(pat) + 1, Len(s)), pat)
    ELSE s

\* Mutant of read_db_file: a missing file is an error like any other.
read_db_file_Strict(file) ==
    IF file.kind = "text" THEN [ok |-> TRUE, lines |-> file.lines]
    ELSE [ok |-> FALSE, lines |-> <<>>]

\* DB::read_db_file: the text, the empty text for a missing file, Err else.
read_db_file(file) ==
    IF file.kind = "unreadable" THEN [ok |-> FALSE, lines |-> <<>>]
    ELSE [ok |-> TRUE, lines |-> file.lines]

\* Mutant of load_lines: a branch line without a project is passed over.
RECURSIVE load_lines_Lenient(_, _, _)
load_lines_Lenient(lines, db, path) ==
    IF lines = <<>> THEN [status |-> "ok", db |-> db]
    ELSE LET line == Head(lines) IN
         IF IsPrefix(PROJECT_PATH_DELIMITER, line)
         THEN LET p == trim_start_matches(line, PROJECT_PATH_DELIMITER) IN
              load_lines_Lenient(Tail(lines),
                                 DB_add_project(db, Project_new(p)), p)
         ELSE IF path # <<>> /\ get_project_mut(db, path) # 0
         THEN LET i == get_project_mut(db, path) IN
              load_lines_Lenient(Tail(lines),
                                 [db EXCEPT ![i] = Project_add_branch(@, line)],
                                 path)
         ELSE load_lines_Lenient(Tail(lines), db, path)

\* The loop of DB::load_from_disk over the remaining lines.
RECURSIVE load_lines(_, _, _)
load_lines(lines, db, path) ==
    IF lines = <<>> THEN [status |-> "ok", db |-> db]
    ELSE LET line == Head(lines) IN
         IF IsPrefix(PROJECT_PATH_DELIMITER, line)
         THEN LET p == trim_start_matches(line, PROJECT_PATH_DELIMITER) IN
              load_lines(Tail(lines), DB_add_project(db, Project_new(p)), p)
         ELSE IF path # <<>>
         THEN LET i == get_project_mut(db, path) IN
              IF i = 0 THEN [status |-> "panic", db |-> <<>>]
              ELSE load_lines(Tail(lines),
                              [db EXCEPT ![i] = Project_add_branch(@, line)],
                              path)
         ELSE [status |-> "panic", db |-> <<>>]

\* DB::load_from_disk: Ok(db), Err of read_db_file, or the panic.
load_from_disk(file) ==
    LET f == read_db_file(file) IN
    IF f.ok THEN load_lines(f.lines, <<>>, <<>>)
    ELSE [status |-> "err", db |-> <<>>]

\* Project paths as main.rs passes them (canonical, absolute), and the branch
\* names a user can give, one of them starting like a project header.
StorePaths == {<<"/", "a">>, <<"/", "a", "/", "b">>}

StoreNames == Branches \cup {PROJECT_PATH_DELIMITER \o BranchA}

BranchLists == UNION {[1..n -> StoreNames] : n \in 0..(MaxLines - 2)}

\* Working directories: below both projects, below none, a sibling whose name
\* only starts like a project's, one reached through "." and a deleted one.
Cwds == {<<"/", "a", "/", "b", "/", "c">>, <<"/", "x">>, <<"/", "a", "b">>,
         <<"/", "a", "/", ".", "/", "b">>, <<"/", "g", "o", "n", "e">>}

\* Path::canonicalize: Err for a path that does not exist, else the absolute
\* form without "." components; <<>> stands for Err, <<p>> for Ok(p).
RECURSIVE canonicalize_dots(_)
canonicalize_dots(path) ==
    IF Len(path) < 2 THEN path
    ELSE IF SubSeq(path, 1, 2) = <<"/", ".">>
    THEN canonicalize_dots(SubSeq(path, 3, Len(path)))
    ELSE <<Head(path)>> \o canonicalize_dots(Tail(path))

canonicalize(path) ==
    IF path = <<"/", "g", "o", "n", "e">> THEN <<>>
    ELSE <<canonicalize_dots(path)>>

\* A store function ending at `DB::load_from_disk()?` or in its panic.
LoadFailed(op, arg, l) ==
    /\ db_file' = db_file
    /\ store_ret' = StoreRet(op, arg, l.status,
                             IF l.status = "err" THEN <<"read error">>
                             ELSE <<"Invalid file format">>, <<>>, <<>>)

\* db.write_to_disk()?; Ok(()): the file replaced, the registry written kept
\* as the call's result for the record.
Saved(op, arg, db) ==
    /\ Len(write_to_disk(db)) <= MaxLines
    /\ db_file' = FileText(write_to_disk(db))
    /\ store_ret' = StoreRet(op, arg, "ok", <<>>, db, <<>>)

\* A store function returning Err(anyhow!(msg)) or a value, nothing written.
Returned(op, arg, status, err, projects, branches) ==
    /\ db_file' = db_file
    /\ store_ret' = StoreRet(op, arg, status, err, projects, branches)

add_project(path) ==
    /\ LET l == load_from_disk(db_file) IN
       IF l.status # "ok" THEN LoadFailed("add_project", path, l)
       ELSE Saved("add_project", path, DB_add_project(l.db, Project_new(path)))
    /\ UNCHANGED <<gitAll, widgetVars, procVars>>

remove_project(path) ==
    /\ LET l == load_from_disk(db_file) IN
       IF l.status # "ok" THEN LoadFailed("remove_project", path, l)
       ELSE Saved("remove_project", path, DB_remove_project(l.db, path))
    /\ UNCHANGED <<gitAll, widgetVars, procVars>>

\* Mutant of add_branch: a path that is not registered gets its project made.
add_branch_Create(path, branch) ==
    /\ LET l == load_from_disk(db_file)
           db == IF get_project_mut(l.db, path) = 0
                 THEN DB_add_project(l.db, Project_new(path)) ELSE l.db
           i == get_project_mut(db, path)
       IN  IF l.status # "ok" THEN LoadFailed("add_branch", path, l)
           ELSE Saved("add_branch", path,
                      [db EXCEPT ![i] = Project_add_branch(@, branch)])
    /\ UNCHANGED <<gitAll, widgetVars, procVars>>

add_branch(path, branch) ==
    /\ LET l == load_from_disk(db_file)
           i == get_project_mut(l.db, path)
       IN  IF l.status # "ok" THEN LoadFailed("add_branch", path, l)
           ELSE IF i = 0
           THEN Returned("add_branch", path, "err", <<"no project found">>,
                         <<>>, <<>>)
           ELSE Saved("add_branch", path,
                      [l.db EXCEPT ![i] = Project_add_branch(@, branch)])
    /\ UNCHANGED <<gitAll, widgetVars, procVars>>

remove_branch(path, branch) ==
    /\ LET l == load_from_disk(db_file)
           i == get_project_mut(l.db, path)
       IN  IF l.status # "ok" THEN LoadFailed("remove_branch", path, l)
           ELSE IF i = 0
           THEN Returned("remove_branch", path, "err", <<"no project found">>,
                         <<>>, <<>>)
           ELSE Saved("remove_branch", path,
                      [l.db EXCEPT ![i] = Project_remove_branch(@, branch)])
    /\ UNCHANGED <<gitAll, widgetVars, procVars>>

get_branches(path) ==
    /\ LET l == load_from_disk(db_file)
           i == get_project_mut(l.db, path)
       IN  IF l.status # "ok" THEN LoadFailed("get_branches", path, l)
           ELSE IF i = 0
           THEN Returned("get_branches", path, "err",
                         <<"no project found in path">>, <<>>, <<>>)
           ELSE Returned("get_branches", path, "ok", <<>>, <<>>,
                         l.db[i].branches)
    /\ UNCHANGED <<gitAll, widgetVars, procVars>>

\* core::set_branches as a relation on the store file and the call's result.
set_branches_call(path, branches) ==
    LET l == load_from_disk(db_file)
        i == get_project_mut(l.db, path)
    IN  IF l.status # "ok" THEN LoadFailed("set_branches", path, l)
        ELSE IF i = 0
        THEN Returned("set_branches", path, "err",
                      <<"no project found in path">>, <<>>, <<>>)
        ELSE Saved("set_branches", path, [l.db EXCEPT ![i].branches = branches])

set_branches(path, branches) ==
    /\ set_branches_call(path, branches)
    /\ UNCHANGED <<gitAll, widgetVars, procVars>>

list_projects ==
    /\ LET l == load_from_disk(db_file) IN
       IF l.status # "ok" THEN LoadFailed("list_projects", <<>>, l)
       ELSE Returned("list_projects", <<>>, "ok", <<>>, l.db, <<>>)
    /\ UNCHANGED <<gitAll, widgetVars, procVars>>

\* Mutant of get_project_from_path: the project's path has to equal the
\* canonical path.
get_project_from_path_Exact(cwd) ==
    /\ LET l == load_from_disk(db_file)
           path == canonicalize(cwd)
           M == {i \in 1..Len(l.db) : l.db[i].path = path[1]}
       IN  IF l.status # "ok" THEN LoadFailed("get_project_from_path", cwd, l)
           ELSE IF path = <<>>
           THEN Returned("get_project_from_path", cwd, "err",
                         <<"canonicalize">>, <<>>, <<>>)
           ELSE IF M = {}
           THEN Returned("get_project_from_path", cwd, "err",
                         <<"no project found in path">>, <<>>, <<>>)
           ELSE Returned("get_project_from_path", cwd, "ok", <<>>,
                         <<l.db[CHOOSE i \in M : \A j \in M : i <= j]>>, <<>>)
    /\ UNCHANGED <<gitAll, widgetVars, procVars>>

get_project_from_path(cwd) ==
    /\ LET l == load_from_disk(db_file)
           path == canonicalize(cwd)
           M == {i \in 1..Len(l.db) : IsPrefix(l.db[i].path, path[1])}
       IN  IF l.status # "ok" THEN LoadFailed("get_project_from_path", cwd, l)
           ELSE IF path = <<>>
           THEN Returned("get_project_from_path", cwd, "err",
                         <<"canonicalize">>, <<>>, <<>>)
           ELSE IF M = {}
           THEN Returned("get_project_from_path", cwd, "err",
                         <<"no project found in path">>, <<>>, <<>>)
           ELSE Returned("get_project_from_path", cwd, "ok", <<>>,
                         <<l.db[CHOOSE i \in M : \A j \in M : i <= j]>>, <<>>)
    /\ UNCHANGED <<gitAll, widgetVars, procVars>>

\* One process at a time calls the store functions, as cli.rs and the widgets
\* do; the file may be absent or unreadable when the first call is made.
StoreInit ==
    /\ GitInit
    /\ head = BranchA
    /\ stashes = <<>>
    /\ db_file \in {NotFound, Unreadable}
    /\ store_ret = NoStoreRet
    /\ items = <<>>
    /\ selected = <<>>
    /\ wops = <<>>
    /\ wbefore = <<>>
    /\ InvocationsIdle

StoreNext ==
    \/ \E path \in StorePaths : add_project(path)
    \/ \E path \in StorePaths : remove_project(path)
    \/ \E path \in StorePaths, branch \in StoreNames : add_branch(path, branch)
    \/ \E path \in StorePaths, branch \in StoreNames : remove_branch(path, branch)
    \/ \E path \in StorePaths : get_branches(path)
    \/ \E path \in StorePaths, branches \in BranchLists : set_branches(path, branches)
    \/ list_projects
    \/ \E cwd \in Cwds : get_project_from_path(cwd)

StoreSpec == StoreInit /\ [][StoreNext]_vars

\* The store functions that end in write_to_disk.
SavingOps == {"add_project", "remove_project", "add_branch", "remove_branch",
              "set_branches"}

\* The last call saved a registry and returned Ok.
JustSaved == store_ret.status = "ok" /\ store_ret.op \in SavingOps

\* C15: store round trip. Whatever registry write_to_disk has saved,
\* load_from_disk yields the same projects in the same order, each with the
\* same branch names in the same order.
C15_StoreRoundTrip ==
    JustSaved => load_from_disk(db_file) = [status |-> "ok", db |-> store_ret.projects]

\* C16: loading when the store file does not exist yields an empty registry
\* and is not an error; the file is only created by the first save; any other
\* read error is surfaced as an error.
C16_MissingFileIsEmpty ==
    /\ [](load_from_disk(NotFound) = [status |-> "ok", db |-> <<>>])
    /\ [][db_file = NotFound =>
            /\ store_ret'.status \in {"ok", "err"}
            /\ store_ret'.err # <<"read error">>
            /\ store_ret'.op = "list_projects" =>
                  store_ret'.status = "ok" /\ store_ret'.projects = <<>>
            /\ IF store_ret'.op \in SavingOps /\ store_ret'.status = "ok"
               THEN db_file' = FileText(write_to_disk(store_ret'.projects))
               ELSE db_file' = NotFound]_vars
    /\ [][db_file = Unreadable =>
            /\ store_ret'.status = "err"
            /\ store_ret'.err = <<"read error">>
            /\ db_file' = Unreadable]_vars

\* With no store file, list_projects has returned Ok over no project at all
\* and there still is no file.
C16_Witness ==
    /\ db_file = NotFound
    /\ store_ret = StoreRet("list_projects", <<>>, "ok", <<>>, <<>>, <<>>)

\* The registry positions whose project path is a string prefix of path.
PrefixMatches(db, path) == {i \in 1..Len(db) : IsPrefix(db[i].path, path)}

\* C17: get_project_from_path(cwd) returns the first project, in registry
\* order, whose path is a string prefix of the canonicalized cwd, and fails
\* with the not-found error exactly when no registered path is a prefix.
C17_ProjectLookup ==
    LET l == load_from_disk(db_file)
        path == canonicalize(store_ret.arg)
    IN  (/\ store_ret.op = "get_project_from_path"
         /\ l.status = "ok"
         /\ path # <<>>) =>
            LET M == PrefixMatches(l.db, path[1]) IN
            /\ M = {} <=> (/\ store_ret.status = "err"
                           /\ store_ret.err = <<"no project found in path">>)
            /\ M # {} => /\ store_ret.status = "ok"
                         /\ \E i \in M :
                              /\ \A j \in M : i <= j
                              /\ store_ret.projects = <<l.db[i]>>

\* With /a registered before /a/b, the lookup from /a/b/c has returned /a.
C17_Witness ==
    /\ store_ret.op = "get_project_from_path"
    /\ store_ret.arg = <<"/", "a", "/", "b", "/", "c">>
    /\ db_file = FileText(<<<<";;;;", "/", "a">>, <<";;;;", "/", "a", "/", "b">>>>)
    /\ store_ret.projects = <<Project_new(<<"/", "a">>)>>

\* C18: project paths are unique. After any sequence of add_project,
\* remove_project, add_branch, remove_branch and set_branches from an empty
\* store no two projects of the registry have the same path.
C18_UniquePaths ==
    LET l == load_from_disk(db_file) IN
    l.status = "ok" =>
        \A i, j \in 1..Len(l.db) : l.db[i].path = l.db[j].path => i = j

\* The functions that address one registered project by its exact path.
ByPathOps == {"add_branch", "remove_branch", "get_branches", "set_branches"}

\* C19: add_branch, remove_branch, get_branches and set_branches called with a
\* path that equals no registered project's path fail with the not-found
\* error and leave the persisted store exactly as it was.
C19_UnknownPathFails ==
    [][LET l == load_from_disk(db_file) IN
       (/\ store_ret'.op \in ByPathOps
        /\ l.status = "ok"
        /\ \A i \in 1..Len(l.db) : l.db[i].path # store_ret'.arg) =>
            /\ store_ret'.status = "err"
            /\ store_ret'.err \in {<<"no project found">>,
                                  <<"no project found in path">>}
            /\ db_file' = db_file]_vars

\* With only /a registered, add_branch for /a/b has failed and the file still
\* holds /a alone.
C19_Witness ==
    /\ store_ret = StoreRet("add_branch", <<"/", "a", "/", "b">>, "err",
                            <<"no project found">>, <<>>, <<>>)
    /\ db_file = FileText(<<<<";;;;", "/", "a">>>>)

\* ------------------------------------------- the saved-branches list widget

\* StatefulList<String>: items and state.selected(), <<>> for None and <<i>>
\* for Some(i), i counted from 0.
StatefulList(its, sel) == [items |-> its, selected |-> sel]

\* Vec::insert(index, element), index counted from 0.
Vec_insert(v, index, element) ==
    SubSeq(v, 1, index) \o <<element>> \o SubSeq(v, index + 1, Len(v))

\* Mutant of MoveItem: the selection stays on the place the item left.
MoveItem_KeepSelection(l, cur, next) ==
    LET item == l.items[cur + 1]
        removed == RemoveAt(l.items, cur + 1)
    IN  StatefulList(Vec_insert(removed, next, item), <<cur>>)

\* The tail of swap_down and swap_up: the item taken out at cur and put back
\* at next, which becomes the selection.
MoveItem(l, cur, next) ==
    LET item == l.items[cur + 1]
        removed == RemoveAt(l.items, cur + 1)
    IN  StatefulList(Vec_insert(removed, next, item), <<next>>)

StatefulList_next(l) ==
    IF l.items = <<>> THEN l
    ELSE IF l.selected = <<>> THEN StatefulList(l.items, <<0>>)
    ELSE LET i == l.selected[1] IN
         StatefulList(l.items, <<IF i >= Len(l.items) - 1 THEN 0 ELSE i + 1>>)

StatefulList_previous(l) ==
    IF l.items = <<>> THEN l
    ELSE IF l.selected = <<>> THEN StatefulList(l.items, <<0>>)
    ELSE LET i == l.selected[1] IN
         StatefulList(l.items, <<IF i = 0 THEN Len(l.items) - 1 ELSE i - 1>>)

\* Mutant of StatefulList_swap_down: the last item stays where it is.
StatefulList_swap_down_NoWrap(l) ==
    IF l.items = <<>> \/ l.selected = <<>> THEN l
    ELSE LET i == l.selected[1] IN
         IF i >= Len(l.items) - 1 THEN l ELSE MoveItem(l, i, i + 1)

StatefulList_swap_down(l) ==
    IF l.items = <<>> \/ l.selected = <<>> THEN l
    ELSE LET i == l.selected[1] IN
         IF i >= Len(l.items) - 1 THEN MoveItem(l, i, 0)
         ELSE MoveItem(l, i, i + 1)

StatefulList_swap_up(l) ==
    IF l.items = <<>> \/ l.selected = <<>> THEN l
    ELSE LET i == l.selected[1] IN
         IF i = 0 THEN MoveItem(l, i, Len(l.items) - 1)
         ELSE MoveItem(l, i, i - 1)

\* ChangeBranchesWidget.project_path, the project the widget was opened for.
project_path == <<"/", "a">>

saved_branches == StatefulList(items, selected)

\* The widget's list becomes l; the operation is noted with the list it found.
ListBecomes(op, l) ==
    /\ items' = l.items
    /\ selected' = l.selected
    /\ wops' = IF Len(wops) < 2 THEN Append(wops, op) ELSE <<wops[2], op>>
    /\ wbefore' = IF Len(wbefore) < 2 THEN Append(wbefore, saved_branches)
                  ELSE <<wbefore[2], saved_branches>>

ChangeBranchesWidget_next ==
    /\ ListBecomes("next", StatefulList_next(saved_branches))
    /\ UNCHANGED <<gitAll, db_file, store_ret, procVars>>

ChangeBranchesWidget_previous ==
    /\ ListBecomes("previous", StatefulList_previous(saved_branches))
    /\ UNCHANGED <<gitAll, db_file, store_ret, procVars>>

ChangeBranchesWidget_swap_down ==
    /\ ListBecomes("swap_down", StatefulList_swap_down(saved_branches))
    /\ set_branches_call(project_path, items')
    /\ UNCHANGED <<gitAll, procVars>>

ChangeBranchesWidget_swap_up ==
    /\ ListBecomes("swap_up", StatefulList_swap_up(saved_branches))
    /\ set_branches_call(project_path, items')
    /\ UNCHANGED <<gitAll, procVars>>

\* The names of the saved branches, and the lists a project can hold.
WidgetNames == Branches \cup {<<"b">>}

SavedLists == UNION {[1..n -> WidgetNames] : n \in 0..(MaxLines - 1)}

\* ChangeBranchesWidget::new over the branches main.rs found for the project
\* of the working directory, which is the only or the second one registered.
WidgetInit ==
    /\ GitInit
    /\ head = BranchA
    /\ stashes = <<>>
    /\ \E branches \in SavedLists, before \in SUBSET {<<"/", "x">>} :
         LET db == [i \in 1..Cardinality(before) |-> Project_new(<<"/", "x">>)]
                     \o <<[path |-> project_path, branches |-> branches]>>
         IN  /\ Len(write_to_disk(db)) <= MaxLines
             /\ db_file = FileText(write_to_disk(db))
             /\ items = branches
    /\ store_ret = NoStoreRet
    /\ selected = <<>>
    /\ wops = <<>>
    /\ wbefore = <<>>
    /\ InvocationsIdle

WidgetNext ==
    \/ ChangeBranchesWidget_next
    \/ ChangeBranchesWidget_previous
    \/ ChangeBranchesWidget_swap_down
    \/ ChangeBranchesWidget_swap_up

WidgetSpec == WidgetInit /\ [][WidgetNext]_vars

\* The branches the store holds for the widget's project.
PersistedBranches ==
    LET l == load_from_disk(db_file) IN
    l.db[get_project_mut(l.db, project_path)].branches

\* C20: branch reorder round trip. For any branch list and any selected index,
\* the first and the last included, swap_up followed by swap_down restores the
\* original order and the original selected index, and after each of the two
\* operations the order persisted by set_branches is that of the list in memory.
C20_SwapRoundTrip ==
    /\ StatefulList_swap_down(StatefulList_swap_up(saved_branches)) = saved_branches
    /\ wops = <<"swap_up", "swap_down">> => saved_branches = wbefore[1]
    /\ (wops # <<>> /\ Last(wops) \in {"swap_up", "swap_down"}) =>
          /\ store_ret.op = "set_branches" /\ store_ret.status = "ok"
          /\ load_from_disk(db_file).status = "ok"
          /\ PersistedBranches = items

\* From the first of three distinct branches swap_up wrapped the item to the
\* end and swap_down has brought it back to the front.
C20_Witness ==
    /\ wops = <<"swap_up", "swap_down">>
    /\ wbefore[1] = StatefulList(<<BranchA, BranchA2, <<"b">>>>, <<0>>)
    /\ wbefore[2] = StatefulList(<<BranchA2, <<"b">>, BranchA>>, <<2>>)
    /\ saved_branches = wbefore[1]
    /\ PersistedBranches = items

\* C21: branch names are unique within a project. After any sequence of
\* add_branch, remove_branch and set_branches calls on a registered project its
\* persisted branch list holds no name twice.
C21_UniqueBranchNames ==
    LET l == load_from_disk(db_file) IN
    l.status = "ok" =>
        \A p \in 1..Len(l.db) :
            \A i, j \in 1..Len(l.db[p].branches) :
                l.db[p].branches[i] = l.db[p].branches[j] => i = j

\* The worker is in the middle of a Checkout's sequence.
Executing == wpc \notin {"recv", "dead"}

\* C22: the worker serializes commands. It takes them from the queue in FIFO
\* order and finishes every git invocation of one command before it starts any
\* of the next, so the invocations of two Checkouts, or of a Checkout and a
\* branch query, never interleave.
C22_WorkerSerializes ==
    [][/\ (wcmd' # wcmd /\ wcmd' # NoCmd) =>
            /\ ~Executing
            /\ cmdq # <<>> /\ wcmd' = Head(cmdq) /\ cmdq' = Tail(cmdq)
       /\ (reply' # reply /\ reply' \notin {NoReply, DroppedReply}) =>
            /\ ~Executing /\ wpc' = wpc
            /\ cmdq # <<>> /\ reply'.kind = Head(cmdq).kind /\ cmdq' = Tail(cmdq)
       /\ (gitlog' # gitlog /\ gitlog' # <<>>) =>
            /\ Executing /\ wcmd' \in {wcmd, NoCmd}
            /\ Len(gitlog') = Len(gitlog) + 1
            /\ SubSeq(gitlog', 1, Len(gitlog)) = gitlog
       /\ Len(cmdq') < Len(cmdq) => cmdq' = Tail(cmdq) \/ wpc' = "dead"
       /\ Len(cmdq') > Len(cmdq) => SubSeq(cmdq', 1, Len(cmdq)) = cmdq]_vars

\* A Checkout has run its first git invocations while a branch query waits in
\* the queue for it to finish.
C22_Witness ==
    /\ wpc = "checkout"
    /\ Ran("stash") # {}
    /\ cmdq # <<>>
    /\ Head(cmdq).kind \in QueryKinds
    /\ cpc = "reply"

\* ------------------------------------- tool invocations at the same time

\* The change add_project or add_branch makes to the registry it loaded.
Mutated(op, path, branch, db) ==
    IF op = "add_project" THEN DB_add_project(db, Project_new(path))
    ELSE [db EXCEPT ![get_project_mut(db, path)] = Project_add_branch(@, branch)]

\* The first half of core::add_project or core::add_branch in invocation p:
\* load_from_disk, the look-up of the project and the change in memory. A
\* call that fails returns here.
Invocation_load(p, op, path, branch) ==
    /\ ppc[p] = "idle"
    /\ LET l == load_from_disk(db_file) IN
       IF l.status # "ok"
       THEN LoadFailed(op, path, l) /\ UNCHANGED procVars
       ELSE IF op = "add_branch" /\ get_project_mut(l.db, path) = 0
       THEN /\ Returned(op, path, "err", <<"no project found">>, <<>>, <<>>)
            /\ UNCHANGED procVars
       ELSE /\ Len(write_to_disk(Mutated(op, path, branch, l.db))) <= MaxLines
            /\ loaded' = [loaded EXCEPT ![p] =
                              InvocationOf(op, path, branch, l.db,
                                           Mutated(op, path, branch, l.db), FALSE)]
            /\ ppc' = [ppc EXCEPT ![p] = "loaded"]
            /\ UNCHANGED <<db_file, store_ret>>
    /\ UNCHANGED <<gitAll, widgetVars>>

\* Mutant of Invocation_save: the file is read again and the change made to
\* what it holds now.
Invocation_save_Reload(p) ==
    /\ ppc[p] = "loaded"
    /\ Saved(loaded[p].op, loaded[p].path,
             Mutated(loaded[p].op, loaded[p].path, loaded[p].branch,
                     load_from_disk(db_file).db))
    /\ ppc' = [ppc EXCEPT ![p] = "idle"]
    /\ loaded' = [loaded EXCEPT ![p].saved = TRUE]
    /\ UNCHANGED <<gitAll, widgetVars>>

\* The second half: db.write_to_disk()?; Ok(()) with the registry in memory.
Invocation_save(p) ==
    /\ ppc[p] = "loaded"
    /\ Saved(loaded[p].op, loaded[p].path, loaded[p].db)
    /\ ppc' = [ppc EXCEPT ![p] = "idle"]
    /\ loaded' = [loaded EXCEPT ![p].saved = TRUE]
    /\ UNCHANGED <<gitAll, widgetVars>>

ConcurrentInit ==
    /\ GitInit
    /\ head = BranchA
    /\ stashes = <<>>
    /\ db_file = NotFound
    /\ store_ret = NoStoreRet
    /\ items = <<>>
    /\ selected = <<>>
    /\ wops = <<>>
    /\ wbefore = <<>>
    /\ InvocationsIdle

ConcurrentNext ==
    \/ \E p \in Procs, op \in {"add_project", "add_branch"}, branch \in Branches :
          Invocation_load(p, op, project_path, branch)
    \/ \E p \in Procs : Invocation_save(p)

ConcurrentSpec == ConcurrentInit /\ [][ConcurrentNext]_vars

\* How often a branch name occurs in the project of that path.
Count(db, path, branch) ==
    IF get_project_mut(db, path) = 0 THEN 0
    ELSE Len(SelectSeq(db[get_project_mut(db, path)].branches,
                       LAMBDA b : b = branch))

\* Invocation q saves, after p has saved what it made of the same loaded
\* registry: both loaded before either saved.
SavesOver(q, p) ==
    /\ ppc[q] = "loaded" /\ ppc'[q] = "idle"
    /\ ppc[p] = "idle" /\ loaded[p].saved
    /\ loaded[p].base = loaded[q].base
    /\ db_file = FileText(write_to_disk(loaded[p].db))

\* C23: the store is not safe against lost updates. When two invocations each
\* load, mutate and save and both load before either saves, the later save
\* overwrites the earlier one: the final file is the loaded registry with the
\* later saver's change alone, and a branch the earlier saver added is absent.
C23_LostUpdate ==
    [][\A q \in Procs : \A p \in Procs \ {q} :
         SavesOver(q, p) =>
            /\ load_from_disk(db_file') =
                  [status |-> "ok",
                   db |-> Mutated(loaded[q].op, loaded[q].path, loaded[q].branch,
                                  loaded[q].base)]
            /\ (/\ loaded[p].op = "add_branch"
                /\ <<loaded[q].op, loaded[q].path, loaded[q].branch>> #
                      <<loaded[p].op, loaded[p].path, loaded[p].branch>>) =>
                  /\ Count(load_from_disk(db_file').db, loaded[p].path, loaded[p].branch)
                        = Count(loaded[p].base, loaded[p].path, loaded[p].branch)
                  /\ Count(load_from_disk(db_file').db, loaded[p].path, loaded[p].branch)
                        < Count(loaded[p].db, loaded[p].path, loaded[p].branch)]_vars

\* Both invocations loaded /a without branches; the first added a and saved,
\* the second added a2 and saved: both returned Ok and the file holds a2 alone.
C23_Witness ==
    /\ loaded[1] = InvocationOf("add_branch", <<"/", "a">>, BranchA,
                                <<Project_new(<<"/", "a">>)>>,
                                <<[path |-> <<"/", "a">>, branches |-> <<BranchA>>]>>,
                                TRUE)
    /\ loaded[2].branch = BranchA2 /\ loaded[2].saved
    /\ loaded[2].base = loaded[1].base
    /\ ppc = [p \in Procs |-> "idle"]
    /\ store_ret.status = "ok"
    /\ db_file = FileText(<<<<";;;;", "/", "a">>, <<"a", "2">>>>)

\* ------------------------------------------ load_from_disk on any file

\* Lines a store file edited by hand may hold: project headers (one with the
\* delimiter twice, one with no path), branch names and the empty line.
FileLines == {PROJECT_PATH_DELIMITER \o <<"/", "a">>,
              PROJECT_PATH_DELIMITER \o PROJECT_PATH_DELIMITER \o <<"/", "a">>,
              PROJECT_PATH_DELIMITER, BranchA, BranchA2, <<>>}

FileTexts == UNION {[1..n -> FileLines] : n \in 0..MaxLines}

\* Any readable store file, read by list_projects.
LoadInit ==
    /\ GitInit
    /\ head = BranchA
    /\ stashes = <<>>
    /\ \E lines \in FileTexts : db_file = FileText(lines)
    /\ store_ret = NoStoreRet
    /\ items = <<>>
    /\ selected = <<>>
    /\ wops = <<>>
    /\ wbefore = <<>>
    /\ InvocationsIdle

LoadSpec == LoadInit /\ [][list_projects]_vars

\* A line that is not a project header comes before every header.
BranchLineFirst(lines) ==
    \E i \in 1..Len(lines) :
        \A j \in 1..i : ~IsPrefix(PROJECT_PATH_DELIMITER, lines[j])

\* C24: malformed store. load_from_disk on a file in which a branch line (a
\* line not starting with the delimiter) occurs before any project header ends
\* in the fatal format error, a panic, and returns no registry, not even a
\* partial one.
C24_MalformedStorePanics ==
    (store_ret.op = "list_projects" /\ BranchLineFirst(db_file.lines)) =>
        /\ store_ret.status = "panic"
        /\ store_ret.err = <<"Invalid file format">>
        /\ store_ret.projects = <<>>
        /\ load_from_disk(db_file) = [status |-> "panic", db |-> <<>>]

\* A file with the branch line a above the header of /a has been loaded: the
\* call ended in the panic.
C24_Witness ==
    /\ db_file = FileText(<<BranchA, PROJECT_PATH_DELIMITER \o <<"/", "a">>>>)
    /\ store_ret.op = "list_projects"
    /\ store_ret.status = "panic"

\* List t is list s with the items at places x and y (from 1) exchanged and
\* every other item at its place.
Exchanged(s, t, x, y) ==
    /\ Len(t) = Len(s)
    /\ t[x] = s[y] /\ t[y] = s[x]
    /\ \A k \in 1..Len(s) : k \notin {x, y} => t[k] = s[k]

\* Lists s and t hold the same items the same number of times.
SameItems(s, t) ==
    /\ Len(s) = Len(t)
    /\ \A k \in 1..Len(s) :
          Len(SelectSeq(s, LAMBDA e : e = s[k])) = Len(SelectSeq(t, LAMBDA e : e = s[k]))

\* The widget's last operation was op, on a list with something selected.
Swapped(op) ==
    /\ wops # <<>> /\ Last(wops) = op
    /\ Last(wbefore).items # <<>> /\ Last(wbefore).selected # <<>>

\* C25 as stated: swap_down (swap_up) with item i selected exchanges exactly
\* the items at i and at the next (previous) place, every other item keeps its
\* index, length and items are unchanged and the selection follows the moved
\* item, for every selected index, the last (first) included.
C25_SwapExchangesNeighbors ==
    LET b == Last(wbefore)
        i == b.selected[1] + 1
        n == Len(b.items)
    IN  /\ Swapped("swap_down") =>
              LET to == IF i = n THEN 1 ELSE i + 1 IN
              /\ Exchanged(b.items, items, i, to)
              /\ SameItems(b.items, items)
              /\ selected = <<to - 1>>
        /\ Swapped("swap_up") =>
              LET to == IF i = 1 THEN n ELSE i - 1 IN
              /\ Exchanged(b.items, items, i, to)
              /\ SameItems(b.items, items)
              /\ selected = <<to - 1>>

\* C25, amended: with an index other than the last (first) selected, swap_down
\* (swap_up) exchanges exactly the selected item and its neighbor; with the
\* last (first) selected it moves that item to the front (end) and every other
\* item one place down (up), in their order. Length and items are unchanged
\* and the selection follows the moved item.
C25_SwapMovesItem ==
    LET b == Last(wbefore)
        i == b.selected[1] + 1
        n == Len(b.items)
    IN  /\ Swapped("swap_down") =>
              /\ i < n => Exchanged(b.items, items, i, i + 1) /\ selected = <<i>>
              /\ i = n => /\ items = <<b.items[n]>> \o SubSeq(b.items, 1, n - 1)
                          /\ selected = <<0>>
              /\ SameItems(b.items, items)
        /\ Swapped("swap_up") =>
              /\ i > 1 => Exchanged(b.items, items, i, i - 1) /\ selected = <<i - 2>>
              /\ i = 1 => /\ items = SubSeq(b.items, 2, n) \o <<b.items[1]>>
                          /\ selected = <<n - 1>>
              /\ SameItems(b.items, items)

\* swap_down on the last of three branches has put it at the front and moved
\* the two others down.
C25_Witness ==
    /\ Swapped("swap_down")
    /\ Last(wbefore) = StatefulList(<<BranchA, BranchA2, <<"b">>>>, <<2>>)
    /\ saved_branches = StatefulList(<<<<"b">>, BranchA, BranchA2>>, <<0>>)

\* The channel the worker's next message goes to.
SendingTo == IF wpc = "recv" THEN Head(cmdq).tx ELSE wcmd.tx

\* C26: for every Checkout the worker puts at most 5 messages on its progress
\* channel (the status line, one per stash, checkout and pop step, and Done),
\* fewer than the channel's capacity of 10, so the try_send of a Progress
\* never fails on a full buffer, even if the caller never polls.
C26_ProgressFitsChannel ==
    /\ [](/\ Len(emitted) <= 5
          /\ \A c \in ChanIds :
                Len(chan[c].buf) <= 5 /\ Len(chan[c].buf) < ProgressCap)
    /\ [][(wpc \notin {"dead", "stash_list"} /\ wpc' = "dead") =>
            ~chan[SendingTo].open]_vars

\* A Checkout with a pop has put its five messages on the channel and the
\* caller has not polled once.
C26_Witness ==
    /\ wpc = "recv"
    /\ emitted = StreamPop
    /\ seqchan # None
    /\ chan[seqchan].buf = StreamPop
    /\ polled = <<>>

\* C27: if checkout() returns an error, for whatever reason (a checkout in
\* progress, or the command could not be enqueued because the worker's queue
\* is closed), the handle's session state is what it was before the call: a
\* failed enqueue leaves no session open.
C27_FailedCheckoutKeepsSession ==
    [][(ret'.op = "checkout" /\ ret'.status = "Err") =>
         /\ cpc = "idle" => UNCHANGED <<checkout_rx, checkout_tx>>
         /\ (cpc = "send" /\ pending.kind = "Checkout" /\ cpc' = "idle") =>
               checkout_rx' = None /\ checkout_tx' = None]_vars

\* C28: whenever a Checkout to branch B pops a stash, the message of that
\* stash is exactly lazy-git-checkout:B, the tag this tool gives the stash made
\* on leaving B; a stash tagged for another branch whose name begins with B,
\* or a stash with any other message, is never popped.
C28_PopsOnlyExactTag ==
    wpc = "pop" =>
        LET i == ResolveRef(stashes, last_stashed[1])
        IN  i # 0 /\ stashes[i].msg = StashName(wcmd.branch)

====
